---- MODULE Spec2Model ----
(***************************************************************************)
(* A model of the apcore runtime core: the composition of the actor at     *)
(* startup (ap_actor.go), the request-time Framework hooks (framework.go)  *)
(* and the pub.Database implementation apdb.                               *)
(***************************************************************************)
EXTENDS Integers, Sequences, FiniteSets, TLC

\* ------------------------------------------------------------------ bounds

\* Number of distinct apdb / clock instances the startup code may be handed.
NumInstances == 2
\* Number of Framework calls (Send, ValidateOAuth2AccessToken) a run makes.
MaxRequests == 3

\* Number of identifiers the apdb is asked about.
NumIds == 2
\* Largest counter value an object may carry when it is created.
MaxInitial == 1
\* Number of apdb calls a sequential caller makes.
MaxOps == 3
\* Number of concurrent read-modify-write operations (the N of the claim).
NumWorkers == 3

\* Largest burst size the rate budget is configured with.
MaxBurst == 2
\* Largest number of tokens a replenishment adds.
MaxRate == 2
\* Number of replenishments a run makes.
MaxTicks == 2
\* Largest number of steps of the guided flow that fail in one run.
MaxFailures == 2
\* Largest magnitude of a number read from a configuration file.
MaxFileValue == 1

\* ------------------------------------------------------------------ values

\* The concurrent callers of Framework.Send: one more than the largest burst.
Senders == 1..(MaxBurst + 1)

\* Go's nil (a nil error, a nil interface value, a nil pointer).
Nil == "nil"

\* A nil behavior reference; the references of the heap start at 1.
NilRef == 0
\* The nil pub.Actor, and the states before the first call of each hook.
NilActor == [kind |-> "nil"]
NoFramework == [kind |-> "nil"]
NoSend == [called |-> FALSE]
NoValidate == [called |-> FALSE]

Instances == 1..NumInstances

\* The identifiers (IRIs) and the callers of the apdb.
Ids == 1..NumIds
Workers == 1..NumWorkers

\* A nil vocab.Type, and a counter object: its id and its count.
NilType == [kind |-> "nil"]
Counter(id, n) == [kind |-> "object", id |-> id, n |-> n]

\* The errors the pub.Database contract names.
ErrNotFound == "NotFound"
ErrConflict == "Conflict"

\* The errors of ap_actor.go and framework.go, by their message.
ErrNeitherEnabled == "neither C2S nor S2S are enabled by the Application"
ErrFederationNotEnabled == "cannot Send: Framework.Send called when federation is not enabled"
ErrNotFederatingActor == "cannot Send: pub.Actor is not a pub.FederatingActor with federation enabled"
\* An error returned by the go-fed actor's own Send (delivery failed).
ErrDelivery == "delivery failed"
\* The credential-validation subsystem broke.
ErrValidation == "credential validation failed"

VARIABLES
    phase,        \* "boot", "composed" (newActor returned an actor), "failed", "running"
    c2sEnabled,   \* Application.C2SEnabled()
    s2sEnabled,   \* Application.S2SEnabled()
    apdbRef,      \* the *apdb handed to newActor
    clockRef,     \* the *clock handed to newActor
    built,        \* the behaviors constructed so far, in order; a reference is an index
    actor,        \* newActor's actor result: Nil or the wired pub.Actor
    actorErr,     \* newActor's err result
    fw,           \* the *framework, Nil before newFramework
    nreq,         \* Framework calls made so far
    actorSends,   \* calls of the actor's Send made so far
    lastSend,     \* the last Framework.Send call: what it did and returned
    lastValidate, \* the last Framework.ValidateOAuth2AccessToken call
    apdb,         \* the *apdb
    live,         \* history: ids whose Create returned nil and no Delete has since
    stored,       \* history: per id, the object of the last Create/Update that returned nil
    nops,         \* apdb calls the sequential caller has made
    lastOp,       \* the last apdb call of the sequential caller and its results
    initial,      \* history: per id, the counter object its Create returned nil for
    wpc,          \* per worker: where it is in Lock, Get, Update, Unlock
    wid,          \* per worker: the id its operation is on
    wread,        \* per worker: the value its Get returned
    rmwDone,      \* history: per id, the operations that ran to their Unlock
    cfg,          \* the configuration call made (defaultConfig, loadConfigFile,
                  \* promptNewConfig), its inputs and its results
    bucket,       \* the RateBudget of the delivery dispatcher: burst, rate, tokens
    spc,          \* per sender: where its Framework.Send is
    admitted,     \* deliveries admitted since the last replenishment
    level,        \* the tokens the bucket held at the last replenishment
    ticks         \* replenishments so far

frameVars == <<phase, c2sEnabled, s2sEnabled, apdbRef, clockRef, built, actor,
               actorErr, fw, nreq, actorSends, lastSend, lastValidate>>
storeVars == <<live, stored, nops, lastOp>>
counterVars == <<initial, wpc, wid, wread, rmwDone>>

configVars == <<cfg>>
deliveryVars == <<bucket, spc, admitted, level, ticks>>

vars == <<frameVars, apdb, storeVars, counterVars, configVars, deliveryVars>>

\* ------------------------------------------------------------- ap_actor.go

\* newCommonBehavior, newSocialBehavior, newFederatingBehavior: each call
\* allocates a new behavior; its reference is its position in the heap.
newBehavior(heap, kind) == [heap |-> Append(heap, kind), ref |-> Len(heap) + 1]

\* pub.NewActor: both protocol behaviors.
NewActor(common, c2s, s2s, db, clock) ==
    [kind |-> "Actor", common |-> common, c2s |-> c2s, s2s |-> s2s,
     db |-> db, clock |-> clock]

\* pub.NewSocialActor: the C2S behavior only.
NewSocialActor(common, c2s, db, clock) ==
    [kind |-> "SocialActor", common |-> common, c2s |-> c2s, s2s |-> NilRef,
     db |-> db, clock |-> clock]

\* pub.NewFederatingActor: the S2S behavior only.
NewFederatingActor(common, s2s, db, clock) ==
    [kind |-> "FederatingActor", common |-> common, c2s |-> NilRef, s2s |-> s2s,
     db |-> db, clock |-> clock]

\* newActor with the capability test written || for &&: an application
\* with one flag off is refused like one with both off.
newActor_eitherOff(cs, ss, clock, db, heap) ==
    LET common == newBehavior(heap, "common")
    IN  IF ~cs \/ ~ss THEN
            [actor |-> NilActor, err |-> ErrNeitherEnabled, heap |-> common.heap]
        ELSE
            LET c2s == newBehavior(common.heap, "social")
                s2s == newBehavior(c2s.heap, "federating")
            IN  [actor |-> NewActor(common.ref, c2s.ref, s2s.ref, db, clock),
                 err |-> Nil, heap |-> s2s.heap]

\* newActor whose social-only branch is a copy of the combined one: it
\* builds and wires a federating behavior although S2S is off.
newActor_socialFederates(cs, ss, clock, db, heap) ==
    LET common == newBehavior(heap, "common")
    IN  IF ~cs /\ ~ss THEN
            [actor |-> NilActor, err |-> ErrNeitherEnabled, heap |-> common.heap]
        ELSE IF cs THEN
            LET c2s == newBehavior(common.heap, "social")
                s2s == newBehavior(c2s.heap, "federating")
            IN  [actor |-> NewActor(common.ref, c2s.ref, s2s.ref, db, clock),
                 err |-> Nil, heap |-> s2s.heap]
        ELSE
            LET s2s == newBehavior(common.heap, "federating")
            IN  [actor |-> NewFederatingActor(common.ref, s2s.ref, db, clock),
                 err |-> Nil, heap |-> s2s.heap]

\* newActor(c, a, clock, p, db, apdb, o, tc): the actor, the error and the heap
\* after the constructors it called.
newActor(cs, ss, clock, db, heap) ==
    LET common == newBehavior(heap, "common")
    IN  IF ~cs /\ ~ss THEN
            [actor |-> NilActor, err |-> ErrNeitherEnabled, heap |-> common.heap]
        ELSE IF cs /\ ss THEN
            LET c2s == newBehavior(common.heap, "social")
                s2s == newBehavior(c2s.heap, "federating")
            IN  [actor |-> NewActor(common.ref, c2s.ref, s2s.ref, db, clock),
                 err |-> Nil, heap |-> s2s.heap]
        ELSE IF cs THEN
            LET c2s == newBehavior(common.heap, "social")
            IN  [actor |-> NewSocialActor(common.ref, c2s.ref, db, clock),
                 err |-> Nil, heap |-> c2s.heap]
        ELSE IF ss THEN
            LET s2s == newBehavior(common.heap, "federating")
            IN  [actor |-> NewFederatingActor(common.ref, s2s.ref, db, clock),
                 err |-> Nil, heap |-> s2s.heap]
        ELSE
            [actor |-> NilActor, err |-> Nil, heap |-> common.heap]

\* ------------------------------------------------------------ framework.go

\* newFramework(scheme, host, o, db, actor, federationEnabled)
newFramework(scheme, host, o, db, a, federationEnabled) ==
    [kind |-> "framework", scheme |-> scheme, host |-> host, o |-> o, db |-> db, actor |-> a,
     federationEnabled |-> federationEnabled]

\* The type assertion f.actor.(pub.FederatingActor): of the three go-fed
\* constructors, NewSocialActor alone returns an actor without Send.
IsFederatingActor(a) ==
    /\ a # NilActor
    /\ a.kind \in {"Actor", "FederatingActor"}

\* framework.Send without its first test: federationEnabled is not consulted.
frameworkSend_noFlagTest(f, sendErr) ==
    IF ~IsFederatingActor(f.actor) THEN
        [err |-> ErrNotFederatingActor, delegated |-> 0]
    ELSE
        [err |-> sendErr, delegated |-> 1]

\* framework.Send that drops the error of the actor's Send.
frameworkSend_dropsErr(f, sendErr) ==
    IF ~f.federationEnabled THEN
        [err |-> ErrFederationNotEnabled, delegated |-> 0]
    ELSE IF ~IsFederatingActor(f.actor) THEN
        [err |-> ErrNotFederatingActor, delegated |-> 0]
    ELSE
        [err |-> Nil, delegated |-> 1]

\* framework.Send with the test of the type assertion inverted: it refuses
\* the actors that are federating ones.
frameworkSend_refusesFederating(f, sendErr) ==
    IF ~f.federationEnabled THEN
        [err |-> ErrFederationNotEnabled, delegated |-> 0]
    ELSE IF IsFederatingActor(f.actor) THEN
        [err |-> ErrNotFederatingActor, delegated |-> 0]
    ELSE
        [err |-> sendErr, delegated |-> 1]

\* framework.Send: the error it returns and how many times it called the
\* actor's Send, whose own error result is sendErr.
frameworkSend(f, sendErr) ==
    IF ~f.federationEnabled THEN
        [err |-> ErrFederationNotEnabled, delegated |-> 0]
    ELSE IF ~IsFederatingActor(f.actor) THEN
        [err |-> ErrNotFederatingActor, delegated |-> 0]
    ELSE
        [err |-> sendErr, delegated |-> 1]

\* The credentials a request may carry: none, or a bearer token that is
\* malformed, well-formed but revoked, or valid.
Tokens == {"t1", "t2"}
CredentialKinds == {"malformed", "revoked", "valid"}
Requests == {[cred |-> "none", token |-> Nil]}
            \cup [cred : CredentialKinds, token : Tokens]

\* oAuth2Server.ValidateOAuth2AccessToken, the credential-validation
\* collaborator: the (token, authenticated, err) triples it may return for a
\* request, with the credential store reachable or not. After a failure the
\* token and the flag are meaningless.
oAuth2ValidateOAuth2AccessToken(req, outage) ==
    IF outage THEN
        [token : {Nil, req.token}, authenticated : BOOLEAN, err : {ErrValidation}]
    ELSE IF req.cred = "valid" THEN
        {[token |-> req.token, authenticated |-> TRUE, err |-> Nil]}
    ELSE
        [token : {Nil, req.token}, authenticated : {FALSE}, err : {Nil}]

\* framework.ValidateOAuth2AccessToken that derives the flag from the token
\* and loses the error.
frameworkValidateOAuth2AccessToken_losesErr(f, collab) ==
    [token |-> collab.token, authenticated |-> collab.token # Nil, err |-> Nil]

\* framework.ValidateOAuth2AccessToken: returns what f.o returned.
frameworkValidateOAuth2AccessToken(f, collab) == collab

\* --------------------------------------------------------------------- apdb

DatabaseRef == "database"

\* newApdb(db)
newApdb(db) == [db |-> db]

\* apdb.Lock: returns nil at once.
apdbLock(a, id) == [err |-> Nil]

\* apdb.Unlock: returns nil.
apdbUnlock(a, id) == [err |-> Nil]

\* apdb.Exists: the zero values of its named results.
apdbExists(a, id) == [exists |-> FALSE, err |-> Nil]

\* apdb.Get: the zero values of its named results, a nil value and a nil error.
apdbGet(a, id) == [value |-> NilType, err |-> Nil]

\* apdb.Create: returns nil.
apdbCreate(a, asType) == [err |-> Nil]

\* apdb.Update: returns nil.
apdbUpdate(a, asType) == [err |-> Nil]

\* apdb.Delete: returns nil.
apdbDelete(a, id) == [err |-> Nil]

\* ---------------------------------------------------------------- config.go

postgresDB == "postgres"

\* A nil *config.
NilConfig == [kind |-> "nil"]

ErrUnsupportedDatabaseKind == "unsupported database kind"
ErrUnknownDatabaseKind == "unknown database kind"

\* defaultServerConfig (bcrypt.DefaultCost is 10); the other fields are zero.
defaultServerConfig ==
    [Host |-> "", CertFile |-> "", KeyFile |-> "", CookieAuthKeyFile |-> "",
     CookieEncryptionKeyFile |-> "", CookieMaxAge |-> 86400,
     CookieSessionName |-> "", HttpsReadTimeoutSeconds |-> 0,
     HttpsWriteTimeoutSeconds |-> 0, RedirectReadTimeoutSeconds |-> 0,
     RedirectWriteTimeoutSeconds |-> 0, StaticRootDirectory |-> "",
     SaltSize |-> 32, BCryptStrength |-> 10, RSAKeySize |-> 1024]

\* defaultOAuthConfig
defaultOAuthConfig == [AccessTokenExpiry |-> 3600, RefreshTokenExpiry |-> 7200]

\* defaultPostgresConfig: the zero postgresConfig.
defaultPostgresConfig ==
    [DatabaseName |-> "", UserName |-> "", Host |-> "", Port |-> 0,
     SSLMode |-> "", FallbackApplicationName |-> "", ConnectTimeout |-> 0,
     SSLCert |-> "", SSLKey |-> "", SSLRootCert |-> "", Schema |-> ""]

\* defaultDatabaseConfig without its test of the database kind.
defaultDatabaseConfig_anyKind(dbkind) ==
    [d |-> [DatabaseKind |-> dbkind, ConnMaxLifetimeSeconds |-> 0,
            MaxOpenConns |-> 0, MaxIdleConns |-> 2,
            DefaultCollectionPageSize |-> 10,
            PostgresConfig |-> defaultPostgresConfig],
     err |-> Nil]

\* defaultDatabaseConfig(dbkind): d and err.
defaultDatabaseConfig(dbkind) ==
    LET d == [DatabaseKind |-> dbkind, ConnMaxLifetimeSeconds |-> 0,
              MaxOpenConns |-> 0, MaxIdleConns |-> 2,
              DefaultCollectionPageSize |-> 10,
              PostgresConfig |-> defaultPostgresConfig]
    IN  IF dbkind # postgresDB
        THEN [d |-> d, err |-> ErrUnsupportedDatabaseKind]
        ELSE [d |-> [d EXCEPT !.PostgresConfig = defaultPostgresConfig],
              err |-> Nil]

\* defaultHttpSignaturesConfig
defaultHttpSignaturesConfig ==
    [Algorithms |-> <<"sha256", "sha512">>, DigestAlgorithm |-> "SHA-256",
     GetHeaders |-> <<"(request-target)", "Date", "Digest">>,
     PostHeaders |-> <<"(request-target)", "Date", "Digest">>]

\* defaultActivityPubConfig
defaultActivityPubConfig ==
    [ClockTimezone |-> "UTC", OutboundRateLimitQPS |-> 10,
     OutboundRateLimitBurst |-> 50,
     HttpSignaturesConfig |-> defaultHttpSignaturesConfig,
     MaxInboxForwardingRecursionDepth |-> 50,
     MaxDeliveryRecursionDepth |-> 50]

\* defaultConfig(dbkind): c and err.
defaultConfig(dbkind) ==
    LET dbc == defaultDatabaseConfig(dbkind)
    IN  IF dbc.err # Nil
        THEN [c |-> NilConfig, err |-> dbc.err]
        ELSE [c |-> [kind |-> "config",
                     ServerConfig |-> defaultServerConfig,
                     OAuthConfig |-> defaultOAuthConfig,
                     DatabaseConfig |-> dbc.d,
                     ActivityPubConfig |-> defaultActivityPubConfig],
              err |-> Nil]

\* The zero config that c = &config{} allocates.
ZeroConfig ==
    [kind |-> "config",
     ServerConfig |-> [defaultServerConfig EXCEPT !.CookieMaxAge = 0,
                          !.SaltSize = 0, !.BCryptStrength = 0, !.RSAKeySize = 0],
     OAuthConfig |-> [AccessTokenExpiry |-> 0, RefreshTokenExpiry |-> 0],
     DatabaseConfig |-> [DatabaseKind |-> "", ConnMaxLifetimeSeconds |-> 0,
                         MaxOpenConns |-> 0, MaxIdleConns |-> 0,
                         DefaultCollectionPageSize |-> 0,
                         PostgresConfig |-> defaultPostgresConfig],
     ActivityPubConfig |-> [ClockTimezone |-> "", OutboundRateLimitQPS |-> 0,
                            OutboundRateLimitBurst |-> 0,
                            HttpSignaturesConfig |->
                                [Algorithms |-> <<>>, DigestAlgorithm |-> "",
                                 GetHeaders |-> <<>>, PostHeaders |-> <<>>],
                            MaxInboxForwardingRecursionDepth |-> 0,
                            MaxDeliveryRecursionDepth |-> 0]]

\* The keys of a configuration file that carry the numbers of the
\* configuration surface, by their ini names.
FileKeys ==
    {"ap_outbound_rate_limit_qps", "ap_outbound_rate_limit_burst",
     "ap_max_inbox_forwarding_recursion_depth",
     "ap_max_delivery_recursion_depth", "db_default_collection_page_size"}
FileValues == (0 - MaxFileValue)..MaxFileValue

\* A configuration file: the keys it holds, each with a number.
ConfigFiles == UNION {[K -> FileValues] : K \in SUBSET FileKeys}

\* The field a key is mapped to holds the key's number, and stays as it was
\* when the file has no such key.
Mapped(file, key, old) == IF key \in DOMAIN file THEN file[key] ELSE old

\* cfg.MapTo(c): the fields of c named by the ini tags take the file's values.
MapTo(file, c) ==
    [c EXCEPT
       !.ActivityPubConfig.OutboundRateLimitQPS =
            Mapped(file, "ap_outbound_rate_limit_qps", @),
       !.ActivityPubConfig.OutboundRateLimitBurst =
            Mapped(file, "ap_outbound_rate_limit_burst", @),
       !.ActivityPubConfig.MaxInboxForwardingRecursionDepth =
            Mapped(file, "ap_max_inbox_forwarding_recursion_depth", @),
       !.ActivityPubConfig.MaxDeliveryRecursionDepth =
            Mapped(file, "ap_max_delivery_recursion_depth", @),
       !.DatabaseConfig.DefaultCollectionPageSize =
            Mapped(file, "db_default_collection_page_size", @)]

\* Where a load may fail: ini.Load, cfg.MapTo(c), cfg.MapTo(appCfg),
\* a.SetConfiguration(appCfg), or nowhere.
LoadFailures == {"none", "ini.Load", "MapTo(c)", "MapTo(appCfg)", "SetConfiguration"}
ErrLoad == "loading the configuration failed"

\* loadConfigFile(filename, a, debug): c and err. The file's content is
\* file, and failure says which of its calls returns an error.
loadConfigFile(file, failure, debug) ==
    IF failure = "ini.Load" THEN [c |-> NilConfig, err |-> ErrLoad]
    ELSE LET c == MapTo(file, ZeroConfig)
         IN  IF failure \in {"MapTo(c)", "MapTo(appCfg)", "SetConfiguration"}
             THEN [c |-> c, err |-> ErrLoad]
             ELSE [c |-> IF debug
                           THEN [c EXCEPT !.ServerConfig.Host = "localhost"]
                           ELSE c,
                   err |-> Nil]

\* ---------------------------------------------------- config.go: the prompts

ErrPrompt == "prompt failed"
ErrCreateKeyFile == "createKeyFile failed"

\* The prompts of promptNewConfig and promptPostgresConfig and the two calls
\* of createKeyFile, each of which may fail.
ServerSteps ==
    {"database", "host", "certFile", "keyFile", "staticRoot", "haveAuthKey",
     "existingAuthKeyFile", "newAuthKeyFile", "createAuthKeyFile",
     "haveEncKey", "existingEncKeyFile", "wantEncKey", "newEncKeyFile",
     "createEncKeyFile", "sessionName", "timeout"}
ActivityPubSteps == {"timezone", "qps", "burst"}
DatabaseSteps == {"connMaxLifetime", "maxOpenConns"}
PostgresSteps == {"pgName", "pgUser", "pgHost", "pgPort", "pgSSLMode"}
Steps == ServerSteps \cup ActivityPubSteps \cup DatabaseSteps \cup PostgresSteps
PromptSteps == Steps \ {"createAuthKeyFile", "createEncKeyFile"}

\* The run of promptNewConfig so far: the config, err, whether the function
\* has returned, the steps taken, the key files createKeyFile was called for,
\* and the user's side: the steps that fail and the answers to the yes/no
\* prompts.
StartRun(fails, answers) ==
    [c |-> NilConfig, err |-> Nil, returned |-> FALSE, asked |-> {},
     created |-> {}, fails |-> fails, answers |-> answers]

\* x, err = prompt(...); if err != nil { return }, with x a field of a
\* section of the config. A prompt that fails returns the zero value.
PromptField(st, step, section, field, val, zero) ==
    IF st.returned THEN st
    ELSE LET failed == step \in st.fails
         IN  [st EXCEPT !.c[section][field] = IF failed THEN zero ELSE val,
                        !.err = IF failed THEN ErrPrompt ELSE Nil,
                        !.asked = @ \cup {step},
                        !.returned = failed]

\* x, err = prompt(...) with no test of err after it.
PromptFieldUnchecked(st, step, section, field, val, zero) ==
    IF st.returned THEN st
    ELSE LET failed == step \in st.fails
         IN  [st EXCEPT !.c[section][field] = IF failed THEN zero ELSE val,
                        !.err = IF failed THEN ErrPrompt ELSE Nil,
                        !.asked = @ \cup {step}]

\* if b, err = promptYN(...); err != nil { return }
PromptYN(st, step) ==
    IF st.returned THEN st
    ELSE LET failed == step \in st.fails
         IN  [st EXCEPT !.err = IF failed THEN ErrPrompt ELSE Nil,
                        !.asked = @ \cup {step},
                        !.returned = failed]

\* The answer a yes/no prompt returned: false when it failed.
Answer(st, step) == step \notin st.fails /\ st.answers[step]

\* err = createKeyFile(file); if err != nil { return }
CreateKeyFile(st, step, file) ==
    IF st.returned THEN st
    ELSE LET failed == step \in st.fails
         IN  [st EXCEPT !.err = IF failed THEN ErrCreateKeyFile ELSE Nil,
                        !.asked = @ \cup {step},
                        !.created = @ \cup {file},
                        !.returned = failed]

\* The cookie authentication key of promptNewConfig, creating the key file
\* in the branch of an existing file as well.
promptCookieAuthKey_alwaysCreates(st) ==
    LET yn == PromptYN(st, "haveAuthKey")
    IN  IF yn.returned THEN yn
        ELSE IF Answer(yn, "haveAuthKey") THEN
            CreateKeyFile(
                PromptField(yn, "existingAuthKeyFile", "ServerConfig",
                            "CookieAuthKeyFile", "cookie_authn.key", ""),
                "createAuthKeyFile", "CookieAuthKeyFile")
        ELSE
            CreateKeyFile(
                PromptField(yn, "newAuthKeyFile", "ServerConfig",
                            "CookieAuthKeyFile", "cookie_authn.key", ""),
                "createAuthKeyFile", "CookieAuthKeyFile")

\* promptNewConfig: the cookie authentication key.
promptCookieAuthKey(st) ==
    LET yn == PromptYN(st, "haveAuthKey")
    IN  IF yn.returned THEN yn
        ELSE IF Answer(yn, "haveAuthKey") THEN
            PromptField(yn, "existingAuthKeyFile", "ServerConfig",
                        "CookieAuthKeyFile", "cookie_authn.key", "")
        ELSE
            CreateKeyFile(
                PromptField(yn, "newAuthKeyFile", "ServerConfig",
                            "CookieAuthKeyFile", "cookie_authn.key", ""),
                "createAuthKeyFile", "CookieAuthKeyFile")

\* promptNewConfig: the cookie encryption key.
promptCookieEncryptionKey(st) ==
    LET yn == PromptYN(st, "haveEncKey")
    IN  IF yn.returned THEN yn
        ELSE IF Answer(yn, "haveEncKey") THEN
            PromptField(yn, "existingEncKeyFile", "ServerConfig",
                        "CookieEncryptionKeyFile", "cookie_enc.key", "")
        ELSE
            LET want == PromptYN(yn, "wantEncKey")
            IN  IF want.returned THEN want
                ELSE IF Answer(want, "wantEncKey") THEN
                    CreateKeyFile(
                        PromptField(want, "newEncKeyFile", "ServerConfig",
                                    "CookieEncryptionKeyFile", "cookie_enc.key", ""),
                        "createEncKeyFile", "CookieEncryptionKeyFile")
                ELSE want

\* A stage of a run applied to the run so far, which is evaluated once.
Then(st, Stage(_)) == CHOOSE next \in {Stage(v) : v \in {st}} : TRUE

\* A Postgres prompt: PostgresConfig.field, err = prompt(...); if err != nil
\* { return }
PromptPostgres(st, step, field, val, zero) ==
    PromptField(st, step, "DatabaseConfig", "PostgresConfig",
                [st.c.DatabaseConfig.PostgresConfig EXCEPT ![field] = val],
                [st.c.DatabaseConfig.PostgresConfig EXCEPT ![field] = zero])

\* promptPostgresConfig(c): its err replaces the run's.
promptPostgresConfig(st) ==
    LET s0 == [st EXCEPT !.err = Nil]
        s1 == Then(s0, LAMBDA v : PromptPostgres(v, "pgName", "DatabaseName", "pgdb", ""))
        s2 == Then(s1, LAMBDA v : PromptPostgres(v, "pgUser", "UserName", "pguser", ""))
        s3 == Then(s2, LAMBDA v : PromptPostgres(v, "pgHost", "Host", "localhost", ""))
        s4 == Then(s3, LAMBDA v : PromptPostgres(v, "pgPort", "Port", 5432, 0))
        s5 == Then(s4, LAMBDA v : PromptPostgres(v, "pgSSLMode", "SSLMode", "require", ""))
    IN  Then(s5, LAMBDA v : [v EXCEPT !.returned = TRUE])

\* s, err = promptSelection(..., postgresDB); c, err = defaultConfig(s)
promptDatabase(st) ==
    LET sel == PromptYN(st, "database")
        dflt == defaultConfig(postgresDB)
    IN  IF sel.returned THEN sel
        ELSE [sel EXCEPT !.c = dflt.c, !.err = dflt.err,
                         !.returned = dflt.err # Nil]

\* The three timeouts that take the value of HttpsReadTimeoutSeconds.
copyTimeouts(st) ==
    IF st.returned THEN st
    ELSE [st EXCEPT
            !.c.ServerConfig.HttpsWriteTimeoutSeconds =
                st.c.ServerConfig.HttpsReadTimeoutSeconds,
            !.c.ServerConfig.RedirectReadTimeoutSeconds =
                st.c.ServerConfig.HttpsReadTimeoutSeconds,
            !.c.ServerConfig.RedirectWriteTimeoutSeconds =
                st.c.ServerConfig.HttpsReadTimeoutSeconds]

\* switch c.DatabaseConfig.DatabaseKind
promptDatabaseKind(st) ==
    IF st.returned THEN st
    ELSE IF st.c.DatabaseConfig.DatabaseKind = postgresDB
    THEN promptPostgresConfig(st)
    ELSE [st EXCEPT !.err = ErrUnknownDatabaseKind, !.returned = TRUE]

\* promptNewConfig(file): the run from its first prompt to its return. The
\* user accepts every default; fails and answers are the user's side.
promptNewConfig(fails, answers) ==
    LET s0 == Then(StartRun(fails, answers), promptDatabase)
        s1 == Then(s0, LAMBDA v : PromptField(v, "host", "ServerConfig", "Host",
                                              "example.com", ""))
        s2 == Then(s1, LAMBDA v : PromptField(v, "certFile", "ServerConfig",
                                              "CertFile", "cert.pem", ""))
        s3 == Then(s2, LAMBDA v : PromptField(v, "keyFile", "ServerConfig",
                                              "KeyFile", "key.pem", ""))
        s4 == Then(s3, LAMBDA v : PromptField(v, "staticRoot", "ServerConfig",
                                              "StaticRootDirectory", "static", ""))
        s5 == Then(s4, LAMBDA v : IF v.returned THEN v ELSE promptCookieAuthKey(v))
        s6 == Then(s5, LAMBDA v : IF v.returned THEN v
                                  ELSE promptCookieEncryptionKey(v))
        s7 == Then(s6, LAMBDA v : PromptField(v, "sessionName", "ServerConfig",
                                              "CookieSessionName",
                                              "my_apcore_session_name", ""))
        s8 == Then(s7, LAMBDA v : PromptField(v, "timeout", "ServerConfig",
                                              "HttpsReadTimeoutSeconds", 60, 0))
        s9 == Then(s8, copyTimeouts)
        s10 == Then(s9, LAMBDA v : PromptField(v, "timezone", "ActivityPubConfig",
                                               "ClockTimezone", "UTC", ""))
        s11 == Then(s10, LAMBDA v : PromptField(v, "qps", "ActivityPubConfig",
                                                "OutboundRateLimitQPS", 10, 0))
        s12 == Then(s11, LAMBDA v : PromptField(v, "burst", "ActivityPubConfig",
                                                "OutboundRateLimitBurst", 50, 0))
        s13 == Then(s12, LAMBDA v : PromptField(v, "connMaxLifetime",
                                                "DatabaseConfig",
                                                "ConnMaxLifetimeSeconds", 60, 0))
        s14 == Then(s13, LAMBDA v : PromptFieldUnchecked(v, "maxOpenConns",
                                                         "DatabaseConfig",
                                                         "MaxOpenConns", 0, 0))
    IN  Then(s14, promptDatabaseKind)

\* What may go wrong in one run: nothing, one step, or two steps.
RECURSIVE FailuresUpTo(_)
FailuresUpTo(n) ==
    IF n = 0 THEN {{}}
    ELSE LET fewer == FailuresUpTo(n - 1)
         IN  fewer \cup {F \cup {step} : F \in fewer, step \in Steps}
FailureSets == FailuresUpTo(MaxFailures)
YesNoAnswers == [{"haveAuthKey", "haveEncKey", "wantEncKey"} -> BOOLEAN]

\* The database kinds a caller may name.
DbKinds == {postgresDB, "mysql", "sqlite3", ""}

\* ------------------------------------------------- the delivery dispatcher

\* No rate budget yet.
NoBucket == [kind |-> "nil"]

\* The RateBudget created at startup from OutboundRateLimitBurst and
\* OutboundRateLimitQPS: a full bucket. The rate is in tokens per
\* replenishment.
newRateBudget(burst, rate) ==
    [kind |-> "bucket", burst |-> burst, rate |-> rate, tokens |-> burst]

\* The check-and-decrement of the budget, one indivisible step: whether the
\* delivery is admitted, and the budget after it.
takeToken(b) ==
    IF b.tokens > 0
    THEN [ok |-> TRUE, bucket |-> [b EXCEPT !.tokens = @ - 1]]
    ELSE [ok |-> FALSE, bucket |-> b]

\* The replenishment of the budget, capped at the burst size.
replenish(b) ==
    [b EXCEPT !.tokens = IF @ + b.rate > b.burst THEN b.burst ELSE @ + b.rate]

\* ------------------------------------------------------------------ startup

OAuthRef == "oAuth2Server"

Init ==
    /\ phase = "boot"
    /\ c2sEnabled \in BOOLEAN
    /\ s2sEnabled \in BOOLEAN
    /\ apdbRef \in Instances
    /\ clockRef \in Instances
    /\ built = <<>>
    /\ actor = NilActor
    /\ actorErr = Nil
    /\ fw = NoFramework
    /\ nreq = 0
    /\ actorSends = 0
    /\ lastSend = NoSend
    /\ lastValidate = NoValidate
    /\ apdb = newApdb(DatabaseRef)
    /\ live = {}
    /\ stored = [id \in Ids |-> NilType]
    /\ nops = 0
    /\ lastOp = [op |-> "none"]
    /\ initial = [id \in Ids |-> NilType]
    /\ wpc = [w \in Workers |-> "idle"]
    /\ wid = [w \in Workers |-> 1]
    /\ wread = [w \in Workers |-> NilType]
    /\ rmwDone = [id \in Ids |-> 0]
    /\ cfg = [op |-> "none"]
    /\ bucket = NoBucket
    /\ spc = [i \in Senders |-> "idle"]
    /\ admitted = 0
    /\ level = 0
    /\ ticks = 0

\* Startup calls newActor once. An error aborts startup.
ComposeActor ==
    /\ phase = "boot"
    /\ LET r == newActor(c2sEnabled, s2sEnabled, clockRef, apdbRef, built)
       IN  /\ actor' = r.actor
           /\ actorErr' = r.err
           /\ built' = r.heap
           /\ phase' = IF r.err # Nil THEN "failed" ELSE "composed"
    /\ UNCHANGED <<c2sEnabled, s2sEnabled, apdbRef, clockRef, fw, nreq,
                   actorSends, lastSend, lastValidate>>
    /\ UNCHANGED <<apdb, storeVars, counterVars>>
    /\ UNCHANGED <<configVars, deliveryVars>>

\* Startup then builds the framework around the actor.
ComposeFramework ==
    /\ phase = "composed"
    /\ \E federationEnabled \in BOOLEAN :
          fw' = newFramework("https", "example.com", OAuthRef, apdbRef, actor,
                             federationEnabled)
    /\ phase' = "running"
    /\ UNCHANGED <<c2sEnabled, s2sEnabled, apdbRef, clockRef, built, actor,
                   actorErr, nreq, actorSends, lastSend, lastValidate>>
    /\ UNCHANGED <<apdb, storeVars, counterVars>>
    /\ UNCHANGED <<configVars, deliveryVars>>

\* ----------------------------------------------------------------- requests

\* Send that turns federation off in the framework once the actor turned out
\* not to be a federating one.
Send_disablesFederation ==
    /\ phase = "running"
    /\ nreq < MaxRequests
    /\ \E sendErr \in {Nil, ErrDelivery} :
          LET r == frameworkSend(fw, sendErr)
          IN  /\ lastSend' = [called |-> TRUE, err |-> r.err,
                              delegated |-> r.delegated, sendErr |-> sendErr]
              /\ actorSends' = actorSends + r.delegated
              /\ fw' = IF r.err = ErrNotFederatingActor
                          THEN [fw EXCEPT !.federationEnabled = FALSE] ELSE fw
    /\ nreq' = nreq + 1
    /\ UNCHANGED <<phase, c2sEnabled, s2sEnabled, apdbRef, clockRef, built,
                   actor, actorErr, lastValidate>>
    /\ UNCHANGED <<apdb, storeVars, counterVars>>
    /\ UNCHANGED <<configVars, deliveryVars>>

\* A handler calls Framework.Send; sendErr is what the actor's Send returns
\* when it is reached.
Send ==
    /\ phase = "running"
    /\ nreq < MaxRequests
    /\ \E sendErr \in {Nil, ErrDelivery} :
          LET r == frameworkSend(fw, sendErr)
          IN  /\ lastSend' = [called |-> TRUE, err |-> r.err, delegated |-> r.delegated,
                                 sendErr |-> sendErr]
              /\ actorSends' = actorSends + r.delegated
    /\ nreq' = nreq + 1
    /\ UNCHANGED <<phase, c2sEnabled, s2sEnabled, apdbRef, clockRef, built,
                   actor, actorErr, fw, lastValidate>>
    /\ UNCHANGED <<apdb, storeVars, counterVars>>
    /\ UNCHANGED <<configVars, deliveryVars>>

\* A handler calls Framework.ValidateOAuth2AccessToken on a request.
ValidateOAuth2AccessToken ==
    /\ phase = "running"
    /\ nreq < MaxRequests
    /\ \E req \in Requests, outage \in BOOLEAN :
          \E collab \in oAuth2ValidateOAuth2AccessToken(req, outage) :
             lastValidate' = [called |-> TRUE, req |-> req, outage |-> outage, collab |-> collab,
                              out |-> frameworkValidateOAuth2AccessToken(fw, collab)]
    /\ nreq' = nreq + 1
    /\ UNCHANGED <<phase, c2sEnabled, s2sEnabled, apdbRef, clockRef, built,
                   actor, actorErr, fw, actorSends, lastSend>>
    /\ UNCHANGED <<apdb, storeVars, counterVars>>
    /\ UNCHANGED <<configVars, deliveryVars>>

Next ==
    \/ ComposeActor
    \/ ComposeFramework
    \/ Send
    \/ ValidateOAuth2AccessToken

Spec == Init /\ [][Next]_vars

\* ----------------------------------------------- a sequential apdb caller

Objects == {Counter(id, n) : id \in Ids, n \in 0..MaxInitial}

\* What a call is recorded as: the call, whether the id was live and which
\* object was last written for it when the call was made, and the results.
OpRecord(op, id, arg, value, exists, err) ==
    [op |-> op, id |-> id, arg |-> arg, wasLive |-> id \in live,
     expected |-> stored[id], value |-> value, exists |-> exists, err |-> err]

CallExists ==
    /\ nops < MaxOps
    /\ \E id \in Ids :
          LET r == apdbExists(apdb, id)
          IN  lastOp' = OpRecord("Exists", id, NilType, NilType, r.exists, r.err)
    /\ nops' = nops + 1
    /\ UNCHANGED <<frameVars, apdb, live, stored, counterVars>>
    /\ UNCHANGED <<configVars, deliveryVars>>

CallGet ==
    /\ nops < MaxOps
    /\ \E id \in Ids :
          LET r == apdbGet(apdb, id)
          IN  lastOp' = OpRecord("Get", id, NilType, r.value, FALSE, r.err)
    /\ nops' = nops + 1
    /\ UNCHANGED <<frameVars, apdb, live, stored, counterVars>>
    /\ UNCHANGED <<configVars, deliveryVars>>

CallCreate ==
    /\ nops < MaxOps
    /\ \E obj \in Objects :
          LET r == apdbCreate(apdb, obj)
          IN  /\ lastOp' = OpRecord("Create", obj.id, obj, NilType, FALSE, r.err)
              /\ live' = IF r.err = Nil THEN live \cup {obj.id} ELSE live
              /\ stored' = IF r.err = Nil
                              THEN [stored EXCEPT ![obj.id] = obj] ELSE stored
    /\ nops' = nops + 1
    /\ UNCHANGED <<frameVars, apdb, counterVars>>
    /\ UNCHANGED <<configVars, deliveryVars>>

CallUpdate ==
    /\ nops < MaxOps
    /\ \E obj \in Objects :
          LET r == apdbUpdate(apdb, obj)
          IN  /\ lastOp' = OpRecord("Update", obj.id, obj, NilType, FALSE, r.err)
              /\ stored' = IF r.err = Nil
                              THEN [stored EXCEPT ![obj.id] = obj] ELSE stored
    /\ nops' = nops + 1
    /\ UNCHANGED <<frameVars, apdb, live, counterVars>>
    /\ UNCHANGED <<configVars, deliveryVars>>

CallDelete ==
    /\ nops < MaxOps
    /\ \E id \in Ids :
          LET r == apdbDelete(apdb, id)
          IN  /\ lastOp' = OpRecord("Delete", id, NilType, NilType, FALSE, r.err)
              /\ live' = IF r.err = Nil THEN live \ {id} ELSE live
              /\ stored' = IF r.err = Nil
                              THEN [stored EXCEPT ![id] = NilType] ELSE stored
    /\ nops' = nops + 1
    /\ UNCHANGED <<frameVars, apdb, counterVars>>
    /\ UNCHANGED <<configVars, deliveryVars>>

NextStore ==
    \/ CallExists
    \/ CallGet
    \/ CallCreate
    \/ CallUpdate
    \/ CallDelete

SpecStore == Init /\ [][NextStore]_vars

\* ------------------------------------- concurrent read-modify-write callers

\* The counter of an id is created, with some initial count.
CreateCounter(id) ==
    /\ initial[id] = NilType
    /\ \E n \in 0..MaxInitial :
          /\ apdbCreate(apdb, Counter(id, n)).err = Nil
          /\ initial' = [initial EXCEPT ![id] = Counter(id, n)]
    /\ UNCHANGED <<frameVars, apdb, storeVars, wpc, wid, wread, rmwDone>>
    /\ UNCHANGED <<configVars, deliveryVars>>

\* A worker starts its operation on a counter: Lock(id) returns to it once
\* the apdb grants the lock.
WorkerLock(w, id) ==
    /\ wpc[w] = "idle"
    /\ initial[id] # NilType
    /\ apdbLock(apdb, id).err = Nil
    /\ wpc' = [wpc EXCEPT ![w] = "locked"]
    /\ wid' = [wid EXCEPT ![w] = id]
    /\ UNCHANGED <<frameVars, apdb, storeVars, initial, wread, rmwDone>>
    /\ UNCHANGED <<configVars, deliveryVars>>

WorkerGet(w) ==
    /\ wpc[w] = "locked"
    /\ LET r == apdbGet(apdb, wid[w])
       IN  /\ r.err = Nil
           /\ wread' = [wread EXCEPT ![w] = r.value]
    /\ wpc' = [wpc EXCEPT ![w] = "got"]
    /\ UNCHANGED <<frameVars, apdb, storeVars, initial, wid, rmwDone>>
    /\ UNCHANGED <<configVars, deliveryVars>>

\* The counter a worker writes back: what it read, plus one. What a caller
\* makes of a nil value is its own affair: it may write any counter.
Incremented(w) ==
    IF wread[w] = NilType
    THEN {Counter(wid[w], n) : n \in 0..(MaxInitial + NumWorkers)}
    ELSE {Counter(wid[w], wread[w].n + 1)}

WorkerUpdate(w) ==
    /\ wpc[w] = "got"
    /\ \E obj \in Incremented(w) : apdbUpdate(apdb, obj).err = Nil
    /\ wpc' = [wpc EXCEPT ![w] = "updated"]
    /\ UNCHANGED <<frameVars, apdb, storeVars, initial, wid, wread, rmwDone>>
    /\ UNCHANGED <<configVars, deliveryVars>>

WorkerUnlock(w) ==
    /\ wpc[w] = "updated"
    /\ apdbUnlock(apdb, wid[w]).err = Nil
    /\ wpc' = [wpc EXCEPT ![w] = "done"]
    /\ rmwDone' = [rmwDone EXCEPT ![wid[w]] = @ + 1]
    /\ UNCHANGED <<frameVars, apdb, storeVars, initial, wid, wread>>
    /\ UNCHANGED <<configVars, deliveryVars>>

NextCounter ==
    \/ \E id \in Ids : CreateCounter(id)
    \/ \E w \in Workers, id \in Ids : WorkerLock(w, id)
    \/ \E w \in Workers : WorkerGet(w)
    \/ \E w \in Workers : WorkerUpdate(w)
    \/ \E w \in Workers : WorkerUnlock(w)

SpecCounter == Init /\ [][NextCounter]_vars

\* ------------------------------------------------------------ configuration

\* The configuration is obtained once, before startup composes anything.
InitConfig ==
    /\ Init
    /\ c2sEnabled /\ s2sEnabled
    /\ apdbRef = 1 /\ clockRef = 1

\* A caller asks for the default configuration of a database kind.
DefaultConfig ==
    /\ cfg.op = "none"
    /\ \E dbkind \in DbKinds :
          LET r == defaultConfig(dbkind)
          IN  cfg' = [op |-> "defaultConfig", dbkind |-> dbkind,
                      c |-> r.c, err |-> r.err]
    /\ UNCHANGED <<frameVars, apdb, storeVars, counterVars, deliveryVars>>

\* Startup loads the configuration file.
LoadConfigFile ==
    /\ cfg.op = "none"
    /\ \E file \in ConfigFiles, failure \in LoadFailures, debug \in BOOLEAN :
          LET r == loadConfigFile(file, failure, debug)
          IN  cfg' = [op |-> "loadConfigFile", file |-> file, c |-> r.c,
                      err |-> r.err]
    /\ UNCHANGED <<frameVars, apdb, storeVars, counterVars, deliveryVars>>

\* The guided flow is run to its return.
PromptNewConfig ==
    /\ cfg.op = "none"
    /\ \E fails \in FailureSets, answers \in YesNoAnswers :
          LET r == promptNewConfig(fails, answers)
          IN  cfg' = [op |-> "promptNewConfig", c |-> r.c, err |-> r.err,
                      asked |-> r.asked, created |-> r.created,
                      failed |-> r.asked \cap fails, answers |-> answers]
    /\ UNCHANGED <<frameVars, apdb, storeVars, counterVars, deliveryVars>>

NextConfig ==
    \/ DefaultConfig
    \/ LoadConfigFile
    \/ PromptNewConfig

SpecConfig == InitConfig /\ [][NextConfig]_vars

\* ----------------------------------------------------------------- delivery

\* Startup creates the dispatcher's rate budget from the configuration.
NewDispatcher ==
    /\ bucket = NoBucket
    /\ phase = "boot"
    /\ \E burst \in 1..MaxBurst, rate \in 1..MaxRate :
          bucket' = newRateBudget(burst, rate)
    /\ level' = bucket'.tokens
    /\ UNCHANGED <<frameVars, apdb, storeVars, counterVars, configVars, spc,
                   admitted, ticks>>

\* A sender calls Framework.Send: it is refused, or its delivery reaches the
\* dispatcher, where it waits for a token.
SenderSend(i) ==
    /\ phase = "running"
    /\ bucket # NoBucket
    /\ spc[i] = "idle"
    /\ LET r == frameworkSend(fw, Nil)
       IN  spc' = [spc EXCEPT ![i] = IF r.delegated = 1 THEN "waiting"
                                     ELSE "refused"]
    /\ UNCHANGED <<frameVars, apdb, storeVars, counterVars, configVars, bucket,
                   admitted, level, ticks>>

\* The dispatcher admits a waiting delivery when the budget has a token.
Admit(i) ==
    /\ spc[i] = "waiting"
    /\ LET r == takeToken(bucket)
       IN  /\ r.ok
           /\ bucket' = r.bucket
    /\ spc' = [spc EXCEPT ![i] = "sent"]
    /\ admitted' = admitted + 1
    /\ UNCHANGED <<frameVars, apdb, storeVars, counterVars, configVars, level,
                   ticks>>

\* Time passes: the budget is replenished.
Tick ==
    /\ bucket # NoBucket
    /\ ticks < MaxTicks
    /\ bucket' = replenish(bucket)
    /\ level' = bucket'.tokens
    /\ admitted' = 0
    /\ ticks' = ticks + 1
    /\ UNCHANGED <<frameVars, apdb, storeVars, counterVars, configVars, spc>>

NextDelivery ==
    \/ NewDispatcher
    \/ ComposeActor
    \/ ComposeFramework
    \/ \E i \in Senders : SenderSend(i)
    \/ \E i \in Senders : Admit(i)
    \/ Tick

SpecDelivery == Init /\ [][NextDelivery]_vars

\* ------------------------------------------------------------------- claims

\* The variant the capability flags ask for (spec section 4.8).
Variant ==
    IF c2sEnabled /\ s2sEnabled THEN "Combined"
    ELSE IF c2sEnabled THEN "SocialOnly"
    ELSE IF s2sEnabled THEN "FederatingOnly"
    ELSE "None"

Composed == phase \in {"composed", "running"}

KindsBuilt == {built[i] : i \in DOMAIN built}

\* C1: once newActor has returned, both flags false means a non-nil error and
\* a nil actor (startup has failed); every other flag combination means a
\* non-nil actor and a nil error.
C1_NewActorResult ==
    phase # "boot" =>
        IF ~c2sEnabled /\ ~s2sEnabled
        THEN actorErr # Nil /\ actor = NilActor /\ phase = "failed"
        ELSE actor # NilActor /\ actorErr = Nil /\ phase # "failed"

\* newActor has refused an application that declares neither capability.
C1_Witness ==
    /\ phase = "failed"
    /\ Variant = "None"
    /\ actorErr = ErrNeitherEnabled

\* C2: the actor newActor returns is of exactly the variant the flags ask
\* for: a social behavior is built and wired iff C2S is on, a federating one
\* iff S2S is on, nothing else is built but the common behavior, and the
\* actor holds the apdb, the clock and the common behavior of this startup.
\* With S2S off no federating behavior exists at all, whatever the outcome.
C2_ExactlyOneVariant ==
    /\ ~s2sEnabled => "federating" \notin KindsBuilt
    /\ Composed =>
        /\ actor.kind = CASE Variant = "Combined" -> "Actor"
                           [] Variant = "SocialOnly" -> "SocialActor"
                           [] Variant = "FederatingOnly" -> "FederatingActor"
                           [] OTHER -> "nil"
        /\ actor.db = apdbRef
        /\ actor.clock = clockRef
        /\ actor.common \in DOMAIN built /\ built[actor.common] = "common"
        /\ IF c2sEnabled
           THEN actor.c2s \in DOMAIN built /\ built[actor.c2s] = "social"
           ELSE actor.c2s = NilRef /\ "social" \notin KindsBuilt
        /\ IF s2sEnabled
           THEN actor.s2s \in DOMAIN built /\ built[actor.s2s] = "federating"
           ELSE actor.s2s = NilRef
        /\ Len(built) = 1 + (IF c2sEnabled THEN 1 ELSE 0)
                           + (IF s2sEnabled THEN 1 ELSE 0)

\* A social-only application is running on a social actor.
C2_Witness ==
    /\ phase = "running"
    /\ Variant = "SocialOnly"
    /\ actor.kind = "SocialActor"
    /\ built = <<"common", "social">>

\* C3: with federationEnabled false every Framework.Send fails with the
\* federation-not-enabled error without calling the actor's Send, so the
\* actor's Send has never been called, whatever the actor is.
C3_SendNeedsFederation ==
    /\ (phase = "running" /\ ~fw.federationEnabled) => actorSends = 0
    /\ (lastSend.called /\ ~fw.federationEnabled) =>
          /\ lastSend.err = ErrFederationNotEnabled
          /\ lastSend.delegated = 0

\* Send was refused on a combined actor whose federation is not enabled.
C3_Witness ==
    /\ lastSend.called
    /\ ~fw.federationEnabled
    /\ fw.actor.kind = "Actor"
    /\ lastSend.err = ErrFederationNotEnabled

\* C4: a Framework.Send that returned nil ran on a FederatingOnly or Combined
\* actor with federation enabled; on a SocialOnly actor it fails without
\* reaching the actor's Send; with federation enabled on a federating actor
\* it calls the actor's Send once and returns that call's error.
C4_SendOnlyWhenFederating ==
    lastSend.called =>
        /\ fw.actor = actor
        /\ lastSend.err = Nil =>
              Variant \in {"FederatingOnly", "Combined"} /\ fw.federationEnabled
        /\ Variant = "SocialOnly" =>
              lastSend.err # Nil /\ lastSend.delegated = 0
        /\ (fw.federationEnabled /\ Variant \in {"FederatingOnly", "Combined"}) =>
              lastSend.delegated = 1 /\ lastSend.err = lastSend.sendErr

\* Send reached a federating-only actor, whose Send failed.
C4_Witness ==
    /\ lastSend.called
    /\ fw.federationEnabled
    /\ Variant = "FederatingOnly"
    /\ lastSend.delegated = 1
    /\ lastSend.err = ErrDelivery

\* C5: once the framework is running, no step changes the capability flags,
\* the composed actor, the behaviors built, or any field of the framework
\* (its actor and its federationEnabled flag among them).
C5_VariantIsTerminal ==
    [][phase = "running" =>
         /\ phase' = "running"
         /\ actor' = actor
         /\ built' = built
         /\ fw' = fw
         /\ fw'.actor = actor
         /\ c2sEnabled' = c2sEnabled /\ s2sEnabled' = s2sEnabled]_vars

\* Both hooks have been called on a running framework that holds a social
\* actor with federation enabled: the Send was refused for the actor's type.
C5_Witness ==
    /\ phase = "running"
    /\ lastSend.called /\ lastSend.err = ErrNotFederatingActor
    /\ lastValidate.called
    /\ fw.federationEnabled

\* C6: the framework returns the collaborator's triple unchanged, so an error
\* stays an error; without a failure of the subsystem, no credential or a
\* revoked one gives authenticated = false and a nil error, a valid one gives
\* authenticated = true with its token; a failure gives a non-nil error.
C6_ValidateOutcomes ==
    lastValidate.called =>
        LET r == lastValidate
        IN  /\ r.out = r.collab
            /\ r.collab.err # Nil => r.out.err # Nil
            /\ (~r.outage /\ r.req.cred \in {"none", "revoked"}) =>
                  ~r.out.authenticated /\ r.out.err = Nil
            /\ (~r.outage /\ r.req.cred = "valid") =>
                  /\ r.out.authenticated
                  /\ r.out.token = r.req.token
                  /\ r.out.err = Nil
            /\ r.outage => r.out.err # Nil

\* A valid credential was presented while the credential store was down, and
\* the collaborator's answer carried a token and the flag beside its error.
C6_Witness ==
    /\ lastValidate.called
    /\ lastValidate.outage
    /\ lastValidate.req.cred = "valid"
    /\ lastValidate.collab.authenticated
    /\ lastValidate.out.err = ErrValidation

\* C7: a Get of an id whose Create succeeded returns, without error, the
\* object last written for it, and a Create of such an id fails with Conflict.
C7_CreateThenGet ==
    /\ (lastOp.op = "Get" /\ lastOp.wasLive) =>
          lastOp.err = Nil /\ lastOp.value = lastOp.expected
    /\ (lastOp.op = "Create" /\ lastOp.wasLive) => lastOp.err = ErrConflict

\* C8: Get, Update and Delete of an id that was never created, or was
\* deleted, fail with NotFound.
C8_AbsentIsNotFound ==
    (lastOp.op \in {"Get", "Update", "Delete"} /\ ~lastOp.wasLive) =>
        lastOp.err = ErrNotFound

\* A worker holds the lock of its id from the return of Lock to its Unlock.
Holds(w, id) == wpc[w] \in {"locked", "got", "updated"} /\ wid[w] = id

\* C9: no two callers hold the lock of one identifier at the same time.
C9_MutualExclusion ==
    \A id \in Ids : \A v, w \in Workers : (Holds(v, id) /\ Holds(w, id)) => v = w

\* C10: when all N operations on a counter have run to their Unlock, the
\* apdb returns the counter with its initial count plus N.
C10_NoLostUpdate ==
    \A id \in Ids :
        (initial[id] # NilType /\ rmwDone[id] = NumWorkers) =>
            apdbGet(apdb, id) =
                [value |-> Counter(id, initial[id].n + NumWorkers), err |-> Nil]

\* The constraints of the configuration surface (spec section 6) on a config.
SatisfiesConstraints(c) ==
    /\ c.ActivityPubConfig.OutboundRateLimitQPS > 0
    /\ c.ActivityPubConfig.OutboundRateLimitBurst > 0
    /\ c.ActivityPubConfig.MaxInboxForwardingRecursionDepth >= 0
    /\ c.ActivityPubConfig.MaxDeliveryRecursionDepth >= 0
    /\ c.DatabaseConfig.DefaultCollectionPageSize > 0

\* C11: a configuration that loadConfigFile returns without error satisfies
\* the constraints of the configuration surface.
C11_LoadedConfigIsValid ==
    (cfg.op = "loadConfigFile" /\ cfg.err = Nil) => SatisfiesConstraints(cfg.c)

SendersIn(pc) == {i \in Senders : spc[i] = pc}

C13_PromptFailureIsReported ==
    (cfg.op = "promptNewConfig" /\ cfg.failed \cap PromptSteps # {}) =>
        cfg.err # Nil

\* The user's answer to a yes/no prompt of the run, when the prompt was made
\* and did not fail.
AnsweredYes(step) == step \in cfg.asked \ cfg.failed /\ cfg.answers[step]
AnsweredNo(step) == step \in cfg.asked \ cfg.failed /\ ~cfg.answers[step]
Succeeded(step) == step \in cfg.asked \ cfg.failed

\* C14 as stated: createKeyFile is called for the authentication key iff the
\* user answered to have no such file, and for the encryption key iff the
\* user answered to have no such file and to want one; never for a file the
\* user declared; and with no encryption key wanted its file name is empty.
C14_AsStated ==
    cfg.op = "promptNewConfig" =>
        /\ "CookieAuthKeyFile" \in cfg.created <=> AnsweredNo("haveAuthKey")
        /\ "CookieEncryptionKeyFile" \in cfg.created <=>
              (AnsweredNo("haveEncKey") /\ AnsweredYes("wantEncKey"))
        /\ AnsweredYes("haveAuthKey") => "CookieAuthKeyFile" \notin cfg.created
        /\ AnsweredYes("haveEncKey") =>
              "CookieEncryptionKeyFile" \notin cfg.created
        /\ (AnsweredNo("haveEncKey") /\ AnsweredNo("wantEncKey")) =>
              cfg.c.ServerConfig.CookieEncryptionKeyFile = ""

\* C14, amended: createKeyFile is called for the authentication key iff the
\* user answered to have no such file and the prompt for the new file name
\* succeeded, and for the encryption key iff the user answered to have no
\* such file and to want one and the prompt for the new file name succeeded;
\* never for a file the user declared; and with no encryption key wanted its
\* file name is empty.
C14_KeyFileCreation ==
    cfg.op = "promptNewConfig" =>
        /\ "CookieAuthKeyFile" \in cfg.created <=>
              (AnsweredNo("haveAuthKey") /\ Succeeded("newAuthKeyFile"))
        /\ "CookieEncryptionKeyFile" \in cfg.created <=>
              /\ AnsweredNo("haveEncKey")
              /\ AnsweredYes("wantEncKey")
              /\ Succeeded("newEncKeyFile")
        /\ AnsweredYes("haveAuthKey") => "CookieAuthKeyFile" \notin cfg.created
        /\ AnsweredYes("haveEncKey") =>
              "CookieEncryptionKeyFile" \notin cfg.created
        /\ (AnsweredNo("haveEncKey") /\ AnsweredNo("wantEncKey")) =>
              cfg.c.ServerConfig.CookieEncryptionKeyFile = ""

\* A run to the end in which the user declared an authentication key file
\* and asked for a new encryption key file: only the latter was created.
C14_Witness ==
    /\ cfg.op = "promptNewConfig"
    /\ cfg.err = Nil
    /\ AnsweredYes("haveAuthKey")
    /\ AnsweredNo("haveEncKey") /\ AnsweredYes("wantEncKey")
    /\ cfg.created = {"CookieEncryptionKeyFile"}
    /\ cfg.c.ServerConfig.CookieAuthKeyFile = "cookie_authn.key"

\* C15: defaultConfig returns an error and a nil config for every database
\* kind but "postgres"; for "postgres" it returns a nil error and a config
\* with rate 10, burst 50, both recursion depths 50 and page size 10, which
\* satisfy the constraints.
C15_DefaultConfig ==
    cfg.op = "defaultConfig" =>
        IF cfg.dbkind # "postgres"
        THEN cfg.err # Nil /\ cfg.c = NilConfig
        ELSE /\ cfg.err = Nil
             /\ cfg.c # NilConfig
             /\ cfg.c.DatabaseConfig.DatabaseKind = "postgres"
             /\ cfg.c.ActivityPubConfig.OutboundRateLimitQPS = 10
             /\ cfg.c.ActivityPubConfig.OutboundRateLimitBurst = 50
             /\ cfg.c.ActivityPubConfig.MaxInboxForwardingRecursionDepth = 50
             /\ cfg.c.ActivityPubConfig.MaxDeliveryRecursionDepth = 50
             /\ cfg.c.DatabaseConfig.DefaultCollectionPageSize = 10
             /\ SatisfiesConstraints(cfg.c)

\* defaultConfig has refused a database kind other than postgres.
C15_Witness ==
    /\ cfg.op = "defaultConfig"
    /\ cfg.dbkind = "mysql"
    /\ cfg.err = ErrUnsupportedDatabaseKind
    /\ cfg.c = NilConfig

====
